---------------------------- MODULE Spec2Model ----------------------------
(* Inbox Intelligence Backend (src/main.py): the OAuth callback that      *)
(* fetches a batch of messages, counts senders, has a language model sort *)
(* the batch, and stores the result in the process-wide USER_SESSION.     *)
(*                                                                         *)
(* Strings whose content the code inspects are sequences of one-character *)
(* strings.  A Python dict is a sequence of [key, val] entries with       *)
(* distinct keys, in insertion order; {} is the empty sequence.           *)
EXTENDS Integers, Sequences, FiniteSets, TLC

VARIABLES pc, credentials, last_result, messages, idx, extracted,
          sender_counter, structured, response, aiReply, fetchLog,
          storeOrder, got

vars == <<pc, credentials, last_result, messages, idx, extracted,
          sender_counter, structured, response, aiReply, fetchLog,
          storeOrder, got>>

(* ------------------------------ bounds ------------------------------ *)
\* concurrent/successive invocations of the callback
MaxRuns == 2
\* messages the provider lists for one callback
MaxMsgs == 2
\* length of one array of ordinal IDs in the model's reply
MaxIds == 2

Runs == 1..MaxRuns
MsgIds == 1..MaxMsgs

None == [t |-> "None"]
Credentials(r) == [t |-> "Credentials", run |-> r]
EmptyDict == <<>>

Range(s) == {s[i] : i \in 1..Len(s)}

(* --------------------------- string helpers ------------------------- *)
Whitespace == {" ", "\t", "\n"}
Digits == {"0", "1", "2", "3", "4", "5", "6", "7", "8", "9"}

RECURSIVE LStrip(_)
LStrip(s) == IF s # <<>> /\ Head(s) \in Whitespace THEN LStrip(Tail(s)) ELSE s

RECURSIVE RStrip(_)
RStrip(s) ==
    IF s # <<>> /\ s[Len(s)] \in Whitespace
    THEN RStrip(SubSeq(s, 1, Len(s) - 1)) ELSE s

\* str.strip()
Strip(s) == RStrip(LStrip(s))

\* str.split("<")[0]: everything before the first "<"
RECURSIVE BeforeAngle(_)
BeforeAngle(s) ==
    IF s = <<>> \/ Head(s) = "<" THEN <<>>
    ELSE <<Head(s)>> \o BeforeAngle(Tail(s))

\* str.replace('"', '')
RemoveQuotes(s) == SelectSeq(s, LAMBDA c : c # "\"")

\* sender.split("<")[0].strip().replace('"', '')
SenderSimple(sender) == RemoveQuotes(Strip(BeforeAngle(sender)))


(* ------------------------- provider responses ----------------------- *)
Hdr(n, v) == [name |-> n, value |-> v]

\* payload.headers of the metadata read (From as characters, Subject opaque)
HeaderResponses ==
    { <<Hdr("From", <<"A", " ", "<", "a", ">">>), Hdr("Subject", "Hi")>>,
      <<Hdr("Subject", "Re"), Hdr("From", <<"\"", "A", "\"", " ", "<", "b", ">">>)>>,
      <<Hdr("From", <<"B">>)>>,
      <<Hdr("Subject", "Hi")>> }

\* the minimal read: with or without a "snippet" key
SnippetResponses == { [snippet |-> "text"], [historyId |-> "7"] }

NoSubject == "(No Subject)"
Unknown == <<"U", "n", "k", "n", "o", "w", "n">>

\* next((h["value"] for h in headers if h["name"] == name), default)
RECURSIVE HeaderValue(_, _, _)
HeaderValue(headers, name, default) ==
    IF headers = <<>> THEN default
    ELSE IF Head(headers).name = name THEN Head(headers).value
    ELSE HeaderValue(Tail(headers), name, default)

\* snippet_res.get("snippet", "")
SnippetOf(snippet_res) ==
    IF "snippet" \in DOMAIN snippet_res THEN snippet_res.snippet ELSE ""

\* the dict appended to extracted_emails
NewRecord(id, headers, snippet_res) ==
    [id |-> id,
     from |-> SenderSimple(HeaderValue(headers, "From", Unknown)),
     subject |-> HeaderValue(headers, "Subject", NoSubject),
     snippet |-> SnippetOf(snippet_res)]

\* collections.defaultdict(int): a missing key reads as 0
CounterGet(c, k) == IF k \in DOMAIN c THEN c[k] ELSE 0

\* "= 1" written for "+= 1"
CounterIncr_Assign(c, k) == [x \in DOMAIN c \cup {k} |-> IF x = k THEN 1 ELSE c[x]]

\* sender_counter[k] += 1
CounterIncr(c, k) ==
    [x \in DOMAIN c \cup {k} |-> IF x = k THEN CounterGet(c, k) + 1 ELSE c[x]]

\* email["sender_count"] = sender_counter[email["from"]]
WithCount(e, c) ==
    [id |-> e.id, from |-> e.from, subject |-> e.subject,
     snippet |-> e.snippet, sender_count |-> CounterGet(c, e.from)]

\* the second pass over extracted_emails
AttachedCounts(emails, c) == [i \in 1..Len(emails) |-> WithCount(emails[i], c)]

\* sequences of distinct message identifiers, in any order
IdLists ==
    UNION {{s \in [1..n -> MsgIds] : \A i, j \in 1..n : s[i] = s[j] => i = j}
           : n \in 0..MaxMsgs}

(* --------------------------- the callback --------------------------- *)
ErrorResponse == [kind |-> "json", status_code |-> 500]
Redirect == [kind |-> "redirect", url |-> "http://localhost:8501"]

\* the handler also resetting the stored result
CallbackError_ClearsResult(r) ==
    /\ pc' = [pc EXCEPT ![r] = "error"]
    /\ response' = [response EXCEPT ![r] = ErrorResponse]
    /\ last_result' = EmptyDict

\* except Exception as e: ... return JSONResponse({"error": str(e)}, 500)
CallbackError(r) ==
    /\ pc' = [pc EXCEPT ![r] = "error"]
    /\ response' = [response EXCEPT ![r] = ErrorResponse]
    /\ UNCHANGED last_result

\* flow.fetch_token(...); USER_SESSION["credentials"] = flow.credentials
FetchToken(r) ==
    /\ pc[r] = "idle"
    /\ \E ok \in BOOLEAN :
          IF ok
          THEN /\ credentials' = Credentials(r)
               /\ pc' = [pc EXCEPT ![r] = "list"]
               /\ UNCHANGED <<response, last_result>>
          ELSE /\ CallbackError(r)
               /\ UNCHANGED credentials
    /\ UNCHANGED <<messages, idx, extracted, sender_counter, structured,
                   aiReply, fetchLog, storeOrder, got>>

\* service.users().messages().list(...).execute(); results.get("messages", [])
ListMessages(r, lists) ==
    /\ pc[r] = "list"
    /\ \E ok \in BOOLEAN, l \in lists :
          IF ~ok
          THEN /\ CallbackError(r)
               /\ UNCHANGED <<messages, idx>>
          ELSE /\ messages' = [messages EXCEPT ![r] = l]
               /\ idx' = [idx EXCEPT ![r] = 1]
               /\ pc' = [pc EXCEPT ![r] = "fetch"]
               /\ UNCHANGED <<response, last_result>>
    /\ UNCHANGED <<credentials, extracted, sender_counter, structured,
                   aiReply, fetchLog, storeOrder, got>>

\* the snippet read wrapped in its own try, its failure ignored
ReachesAppend_SnippetOptional(hOk, sOk) == hOk

\* the try body runs to the append unless one of the two reads raised
\* (hOk, sOk: the metadata read, the minimal read returned a usable response)
ReachesAppend(hOk, sOk) == hOk /\ sOk

\* one iteration of "for msg in messages": the two reads, then the record;
\* any exception is swallowed by "except Exception: continue".
\* fetchLog keeps what the provider did for each listed message.
FetchMessage(r, hdrs, snips) ==
    /\ pc[r] = "fetch"
    /\ idx[r] <= Len(messages[r])
    /\ \E hOk \in BOOLEAN, sOk \in BOOLEAN, h \in hdrs, s \in snips :
          LET ok == ReachesAppend(hOk, sOk)
              rec == NewRecord(messages[r][idx[r]], h, s)
          IN /\ fetchLog' = [fetchLog EXCEPT
                                ![r] = Append(@, [header |-> hOk, snippet |-> sOk])]
             /\ IF ok
                THEN /\ sender_counter' =
                          [sender_counter EXCEPT ![r] = CounterIncr(@, rec.from)]
                     /\ extracted' = [extracted EXCEPT ![r] = Append(@, rec)]
                ELSE UNCHANGED <<sender_counter, extracted>>
    /\ idx' = [idx EXCEPT ![r] = @ + 1]
    /\ UNCHANGED <<pc, credentials, last_result, messages, structured,
                   response, aiReply, storeOrder, got>>

\* the callback emptying the stored result before it categorizes
AttachCounts_ResetsResult(r) ==
    /\ pc[r] = "fetch"
    /\ idx[r] > Len(messages[r])
    /\ extracted' = [extracted EXCEPT
                       ![r] = AttachedCounts(@, sender_counter[r])]
    /\ pc' = [pc EXCEPT ![r] = "ai"]
    /\ last_result' = EmptyDict
    /\ UNCHANGED <<credentials, messages, idx, sender_counter,
                   structured, response, aiReply, fetchLog, storeOrder, got>>

\* "for email in extracted_emails: email["sender_count"] = ..."
AttachCounts(r) ==
    /\ pc[r] = "fetch"
    /\ idx[r] > Len(messages[r])
    /\ extracted' = [extracted EXCEPT
                       ![r] = AttachedCounts(@, sender_counter[r])]
    /\ pc' = [pc EXCEPT ![r] = "ai"]
    /\ UNCHANGED <<credentials, last_result, messages, idx, sender_counter,
                   structured, response, aiReply, fetchLog, storeOrder, got>>


(* ------------------------ the model's reply ------------------------- *)
\* JSON values as json.loads yields them
JInt(n) == [t |-> "int", v |-> n]
JFloat(w, f) == [t |-> "float", whole |-> w, tenths |-> f]
JStr(s) == [t |-> "str", s |-> s]
JNull == [t |-> "null"]
JArray(items) == [t |-> "array", items |-> items]
\* a JSON object as written: members in order, keys possibly repeated
JObject(members) == [t |-> "object", members |-> members]
Member(k, v) == [key |-> k, val |-> v]

\* int(x) on a str: surrounding whitespace, an optional sign, then digits
DigitValue(c) == CHOOSE n \in 0..9 : ToString(n) = c

RECURSIVE DigitsValue(_, _)
DigitsValue(s, acc) ==
    IF s = <<>> THEN acc ELSE DigitsValue(Tail(s), 10 * acc + DigitValue(Head(s)))

ParseInt(s) ==
    LET body == Strip(s)
        signed == body # <<>> /\ Head(body) \in {"+", "-"}
        digits == IF signed THEN Tail(body) ELSE body
    IN IF digits # <<>> /\ \A i \in 1..Len(digits) : digits[i] \in Digits
       THEN [ok |-> TRUE,
             v |-> IF signed /\ Head(body) = "-"
                   THEN 0 - DigitsValue(digits, 0) ELSE DigitsValue(digits, 0)]
       ELSE [ok |-> FALSE, v |-> 0]

\* int(eid): ok = FALSE stands for ValueError / TypeError
PyInt(x) ==
    CASE x.t = "int" -> [ok |-> TRUE, v |-> x.v]
      [] x.t = "float" -> [ok |-> TRUE, v |-> x.whole]
      [] x.t = "str" -> ParseInt(x.s)
      [] OTHER -> [ok |-> FALSE, v |-> 0]

\* "for eid in ids": a list yields its items, a str its characters;
\* ok = FALSE stands for TypeError (int, float, None are not iterable)
PyIter(x) ==
    CASE x.t = "array" -> [ok |-> TRUE, items |-> x.items]
      [] x.t = "str" ->
           [ok |-> TRUE, items |-> [i \in 1..Len(x.s) |-> JStr(<<x.s[i]>>)]]
      [] OTHER -> [ok |-> FALSE, items |-> <<>>]

(* ---------------------------- Python dict --------------------------- *)
DictKeys(d) == {d[i].key : i \in 1..Len(d)}

\* d[k] = v: an existing key keeps its position
DictSet(d, k, v) ==
    IF k \in DictKeys(d)
    THEN [i \in 1..Len(d) |-> IF d[i].key = k THEN Member(k, v) ELSE d[i]]
    ELSE Append(d, Member(k, v))

\* json.loads of an object: a repeated key keeps its last value
RECURSIVE LoadMembers(_, _)
LoadMembers(members, d) ==
    IF members = <<>> THEN d
    ELSE LoadMembers(Tail(members), DictSet(d, Head(members).key, Head(members).val))


(* ------------------------ categorize_with_ai ------------------------ *)
\* what client.chat.completions.create does: raise, or return a message
\* whose content is either not JSON at all or a JSON document
Raises == [t |-> "raise"]
Garbage == [t |-> "content", json |-> FALSE, doc |-> JNull]
Content(doc) == [t |-> "content", json |-> TRUE, doc |-> doc]

Raised == [raised |-> TRUE, val |-> EmptyDict]
Returned(v) == [raised |-> FALSE, val |-> v]

\* enumerate(emails) left at its default start of 0
EmailMap_ZeroBased(emails) == [i \in 0..(Len(emails) - 1) |-> emails[i + 1]]

\* email_map = {i: e for i, e in enumerate(emails, 1)}
EmailMap(emails) == [i \in 1..Len(emails) |-> emails[i]]

\* email_map.get(n)
MapGet(email_map, n) == IF n \in DOMAIN email_map THEN email_map[n] ELSE None

\* the "if original:" test left out
Truthy_NoCheck(x) == TRUE

\* "if original:" (a record dict is never empty, None is falsy)
Truthy(x) == x # None

\* the inner loop "for eid in ids": the records to append, or an exception
RECURSIVE ResolveIds(_, _)
ResolveIds(email_map, ids) ==
    IF ids = <<>> THEN Returned(<<>>)
    ELSE LET n == PyInt(Head(ids))
         IN IF ~n.ok THEN Raised
            ELSE LET original == MapGet(email_map, n.v)
                     rest == ResolveIds(email_map, Tail(ids))
                 IN IF rest.raised THEN Raised
                    ELSE Returned((IF Truthy(original) THEN <<original>> ELSE <<>>)
                                  \o rest.val)

\* "4. Rebuild Full Data": the loop over category_map.items()
RECURSIVE Rebuild(_, _, _)
Rebuild(email_map, category_map, final_output) ==
    IF category_map = <<>> THEN Returned(final_output)
    ELSE LET category == Head(category_map).key
             ids == PyIter(Head(category_map).val)
         IN IF ~ids.ok THEN Raised
            ELSE LET found == ResolveIds(email_map, ids.items)
                 IN IF found.raised THEN Raised
                    ELSE Rebuild(email_map, Tail(category_map),
                                 DictSet(final_output, category, found.val))

\* the body of the try block, given what the completion call did
TryBlock(emails, outcome) ==
    IF outcome.t = "raise" THEN Raised
    ELSE IF ~outcome.json THEN Raised                    \* json.loads raises
    ELSE IF outcome.doc.t # "object" THEN Raised         \* no .items()
    ELSE Rebuild(EmailMap(emails), LoadMembers(outcome.doc.members, <<>>), <<>>)

\* "except Exception as e: ...; return {}"
ExceptHandler(attempt) == IF attempt.raised THEN Returned(EmptyDict) ELSE attempt

\* categorize_with_ai(emails) for one behaviour of the completion call;
\* called == whether the completion call was made at all
categorize_with_ai(emails, outcome) ==
    IF emails = <<>>
    THEN [called |-> FALSE, raised |-> FALSE, val |-> EmptyDict]
    ELSE LET res == ExceptHandler(TryBlock(emails, outcome))
         IN [called |-> TRUE, raised |-> res.raised, val |-> res.val]

NoReply == [t |-> "none"]

\* structured_data = categorize_with_ai(extracted_emails)
Categorize(r, outcomes) ==
    /\ pc[r] = "ai"
    /\ \E o \in outcomes :
          LET res == categorize_with_ai(extracted[r], o)
          IN /\ aiReply' = [aiReply EXCEPT ![r] = IF res.called THEN o ELSE NoReply]
             /\ IF res.raised
                THEN /\ CallbackError(r)
                     /\ UNCHANGED structured
                ELSE /\ structured' = [structured EXCEPT ![r] = res.val]
                     /\ pc' = [pc EXCEPT ![r] = "store"]
                     /\ UNCHANGED <<response, last_result>>
    /\ UNCHANGED <<credentials, messages, idx, extracted, sender_counter,
                   fetchLog, storeOrder, got>>

\* USER_SESSION["last_result"].update(structured_data) instead of assignment
Store_Merge(r) ==
    /\ pc[r] = "store"
    /\ last_result' = LoadMembers(structured[r], last_result)
    /\ storeOrder' = Append(storeOrder, r)
    /\ response' = [response EXCEPT ![r] = Redirect]
    /\ pc' = [pc EXCEPT ![r] = "done"]
    /\ UNCHANGED <<credentials, messages, idx, extracted, sender_counter,
                   structured, aiReply, fetchLog, got>>

\* USER_SESSION["last_result"] = structured_data; return RedirectResponse(...)
\* storeOrder keeps the order in which callbacks reached this line.
Store(r) ==
    /\ pc[r] = "store"
    /\ last_result' = structured[r]
    /\ storeOrder' = Append(storeOrder, r)
    /\ response' = [response EXCEPT ![r] = Redirect]
    /\ pc' = [pc EXCEPT ![r] = "done"]
    /\ UNCHANGED <<credentials, messages, idx, extracted, sender_counter,
                   structured, aiReply, fetchLog, got>>

\* GET /result
get_result ==
    /\ got' = [status |-> "success", categories |-> last_result]
    /\ UNCHANGED <<pc, credentials, last_result, messages, idx, extracted,
                   sender_counter, structured, response, aiReply, fetchLog,
                   storeOrder>>


(* ------------------------------ domains ----------------------------- *)
ActionRequired == "Action Required"
Promotions == "Promotions & Noise"

HdrAlice == <<Hdr("From", <<"A", " ", "<", "a", ">">>), Hdr("Subject", "Hi")>>
SnipText == [snippet |-> "text"]

\* elements the model may put in an array of IDs
IdTokens ==
    {JInt(1), JInt(2), JStr(<<"2">>), JInt(99), JStr(<<"x">>), JFloat(1, 5)}

IdArrays == UNION {{JArray(a) : a \in [1..n -> IdTokens]} : n \in 0..MaxIds}

\* values of a category key: an array, or something that is not an array
KeyValues == IdArrays \cup {JStr(<<"1", "2">>), JInt(5), JNull}

\* the keys of the reply as written: none, one, two, one repeated
KeySeqs == {<<>>, <<ActionRequired>>, <<Promotions, ActionRequired>>,
            <<ActionRequired, ActionRequired>>}

\* the reply {keys[1]: vals[1], ...}
ObjectReply(keys, vals) ==
    Content(JObject([i \in 1..Len(keys) |-> Member(keys[i], vals[i])]))

\* the completion call fails, or its content is no JSON object
OddOutcomes ==
    {Raises, Garbage, Content(JArray(<<JInt(1)>>)), Content(JStr(<<"1">>)),
     Content(JNull)}

\* the batch left by n successful fetches from one sender
CatBatch(n) ==
    AttachedCounts([i \in 1..n |-> NewRecord(i, HdrAlice, SnipText)],
                   [x \in {SenderSimple(HdrAlice[1].value)} |-> n])

\* the callback's small world when several callbacks overlap
PipeLists == {<<>>, <<1>>}
PipeOutcomes ==
    {Raises,
     Content(JObject(<<Member(ActionRequired, JArray(<<JInt(1)>>))>>)),
     Content(JObject(<<Member(Promotions, JArray(<<JStr(<<"1">>)>>))>>))}

(* --------------------------- specifications ------------------------- *)
NotCalled == [status |-> "not called", categories |-> EmptyDict]

\* module load: USER_SESSION = {"credentials": None, "last_result": {}}
Init ==
    /\ pc = [r \in Runs |-> "idle"]
    /\ credentials = None
    /\ last_result = EmptyDict
    /\ messages = [r \in Runs |-> <<>>]
    /\ idx = [r \in Runs |-> 1]
    /\ extracted = [r \in Runs |-> <<>>]
    /\ sender_counter = [r \in Runs |-> <<>>]
    /\ structured = [r \in Runs |-> EmptyDict]
    /\ response = [r \in Runs |-> None]
    /\ aiReply = [r \in Runs |-> NoReply]
    /\ fetchLog = [r \in Runs |-> <<>>]
    /\ storeOrder = <<>>
    /\ got = NotCalled

\* overlapping callbacks and retrievals
Next ==
    \/ \E r \in Runs : FetchToken(r)
    \/ \E r \in Runs : ListMessages(r, PipeLists)
    \/ \E r \in Runs : FetchMessage(r, {HdrAlice}, {SnipText})
    \/ \E r \in Runs : AttachCounts(r)
    \/ \E r \in Runs : Categorize(r, PipeOutcomes)
    \/ \E r \in Runs : Store(r)
    \/ get_result

Spec == Init /\ [][Next]_vars

\* one callback over every listing and every pattern of per-message results
NextFetch ==
    \/ FetchToken(1)
    \/ ListMessages(1, IdLists)
    \/ FetchMessage(1, HeaderResponses, SnippetResponses)
    \/ AttachCounts(1)

SpecFetch == Init /\ [][NextFetch]_vars

\* one callback at the call of categorize_with_ai, for every batch size
InitCat ==
    /\ \E n \in 0..MaxMsgs :
          /\ messages = [r \in Runs |-> IF r = 1 THEN [i \in 1..n |-> i] ELSE <<>>]
          /\ idx = [r \in Runs |-> IF r = 1 THEN n + 1 ELSE 1]
          /\ extracted = [r \in Runs |-> IF r = 1 THEN CatBatch(n) ELSE <<>>]
          /\ sender_counter =
                [r \in Runs |-> IF r = 1 /\ n > 0
                                THEN [x \in {SenderSimple(HdrAlice[1].value)} |-> n]
                                ELSE <<>>]
          /\ fetchLog = [r \in Runs |->
                            IF r = 1
                            THEN [i \in 1..n |-> [header |-> TRUE, snippet |-> TRUE]]
                            ELSE <<>>]
    /\ pc = [r \in Runs |-> IF r = 1 THEN "ai" ELSE "idle"]
    /\ credentials = Credentials(1)
    /\ last_result = EmptyDict
    /\ structured = [r \in Runs |-> EmptyDict]
    /\ response = [r \in Runs |-> None]
    /\ aiReply = [r \in Runs |-> NoReply]
    /\ storeOrder = <<>>
    /\ got = NotCalled

NextCat ==
    \/ Categorize(1, OddOutcomes)
    \/ /\ pc[1] = "ai"
       /\ \E keys \in KeySeqs : \E vals \in [1..Len(keys) -> KeyValues] :
             Categorize(1, {ObjectReply(keys, vals)})

SpecCat == InitCat /\ [][NextCat]_vars


(* ------------------- vocabulary of the properties ------------------- *)
\* categorize_with_ai has returned to the callback of run r
HasReturned(r) == pc[r] \in {"store", "done"}

\* an ordinal ID as a JSON integer or a string of decimal digits
IsOrdinalToken(x) ==
    \/ x.t = "int"
    \/ /\ x.t = "str"
       /\ x.s # <<>>
       /\ \A i \in 1..Len(x.s) : x.s[i] \in Digits

IsNonNumericToken(x) == x.t = "str" /\ ~IsOrdinalToken(x)

RECURSIVE DecimalValue(_)
DecimalValue(s) ==
    IF s = <<>> THEN 0
    ELSE 10 * DecimalValue(SubSeq(s, 1, Len(s) - 1)) + DigitValue(s[Len(s)])

OrdinalOf(x) == IF x.t = "int" THEN x.v ELSE DecimalValue(x.s)

\* the element names a record of a batch of n
Resolves(x, n) == IsOrdinalToken(x) /\ OrdinalOf(x) \in 1..n

\* the reply of run r is a JSON object whose values are all arrays
IsObjectOfArrays(o) ==
    /\ o.t = "content"
    /\ o.json
    /\ o.doc.t = "object"
    /\ \A i \in 1..Len(o.doc.members) : o.doc.members[i].val.t = "array"

\* all array elements of such a reply
AllTokens(o) ==
    UNION {Range(o.doc.members[i].val.items) : i \in 1..Len(o.doc.members)}

\* the distinct keys of the reply, in order of first appearance
RECURSIVE KeyOrder(_, _)
KeyOrder(members, seen) ==
    IF members = <<>> THEN <<>>
    ELSE IF Head(members).key \in seen THEN KeyOrder(Tail(members), seen)
    ELSE <<Head(members).key>>
         \o KeyOrder(Tail(members), seen \cup {Head(members).key})

\* the value JSON gives a key: that of its last appearance
ValueOf(members, k) ==
    LET last == CHOOSE i \in 1..Len(members) :
                   /\ members[i].key = k
                   /\ \A j \in (i + 1)..Len(members) : members[j].key # k
    IN members[last].val

\* the records named by the elements that resolve, in the order listed
ExpectedEntry(emails, items) ==
    LET good == SelectSeq(items, LAMBDA x : Resolves(x, Len(emails)))
    IN [k \in 1..Len(good) |-> emails[OrdinalOf(good[k])]]

ExpectedAssignment(emails, members) ==
    LET keys == KeyOrder(members, {})
    IN [i \in 1..Len(keys) |->
          Member(keys[i], ExpectedEntry(emails, ValueOf(members, keys[i]).items))]

\* the records of one category, as a set
RecordsIn(entry) == Range(entry.val)


(* ---------------- categorize_with_ai (under SpecCat) ---------------- *)
\* C1: whatever the model replies, no record of the batch appears in two
\* different categories of the returned assignment.
C1_AtMostOneCategory ==
    \A r \in Runs :
       HasReturned(r) =>
          \A i, j \in 1..Len(structured[r]) :
             i # j => RecordsIn(structured[r][i]) \cap RecordsIn(structured[r][j]) = {}

\* C2: a non-numeric ID next to valid ordinals raises nothing and yields no
\* record, and every valid ordinal around it is still resolved into its
\* category.
C2_NonNumericIdIsDropped ==
    \A r \in Runs :
       ( /\ HasReturned(r)
         /\ IsObjectOfArrays(aiReply[r])
         /\ \A x \in AllTokens(aiReply[r]) : IsOrdinalToken(x) \/ IsNonNumericToken(x)
         /\ \E x \in AllTokens(aiReply[r]) : IsNonNumericToken(x)
         /\ \E x \in AllTokens(aiReply[r]) : Resolves(x, Len(extracted[r])) )
       => structured[r] = ExpectedAssignment(extracted[r], aiReply[r].doc.members)

\* C3: for a non-empty batch and any reply, every record in any category of
\* the returned assignment is a record of the batch, namely the one at the
\* ordinal that some element listed under that category converts to; nothing
\* else (no None, no partial record) is inserted.
C3_NoFabricatedRecords ==
    \A r \in Runs :
       (HasReturned(r) /\ extracted[r] # <<>>) =>
          \A i \in 1..Len(structured[r]) :
             \A j \in 1..Len(structured[r][i].val) :
                \E n \in 1..Len(extracted[r]) :
                   /\ structured[r][i].val[j] = extracted[r][n]
                   /\ \E x \in Range(PyIter(ValueOf(aiReply[r].doc.members,
                                                   structured[r][i].key)).items) :
                         PyInt(x).ok /\ PyInt(x).v = n

\* a category holding a record although an unresolvable ID was listed too
C3_Witness ==
    /\ HasReturned(1)
    /\ Len(extracted[1]) = 2
    /\ Len(structured[1]) = 2
    /\ structured[1][1].val = <<extracted[1][2]>>
    /\ JInt(99) \in Range(aiReply[1].doc.members[1].val.items)

\* C4: for a reply that is an object of arrays of ordinals (JSON integers or
\* digit strings), the returned assignment has exactly one entry per key of
\* the reply, in the reply's key order, each holding the records of the
\* listed ordinals that lie in 1..N, in the order listed; ordinals outside
\* 1..N are dropped and a key with none left keeps an empty sequence.
C4_ResolvedInOrder ==
    \A r \in Runs :
       ( /\ HasReturned(r)
         /\ extracted[r] # <<>>
         /\ IsObjectOfArrays(aiReply[r])
         /\ \A x \in AllTokens(aiReply[r]) : IsOrdinalToken(x) )
       => structured[r] = ExpectedAssignment(extracted[r], aiReply[r].doc.members)

\* {"Promotions & Noise": [99], "Action Required": ["2", 1]} over two records
C4_Witness ==
    /\ HasReturned(1)
    /\ Len(extracted[1]) = 2
    /\ aiReply[1] = ObjectReply(<<Promotions, ActionRequired>>,
                                <<JArray(<<JInt(99)>>),
                                  JArray(<<JStr(<<"2">>), JInt(1)>>)>>)
    /\ structured[1] = <<Member(Promotions, <<>>),
                         Member(ActionRequired, <<extracted[1][2], extracted[1][1]>>)>>

\* the completion call raised, or its content is not JSON, not an object,
\* or an object with a value that is not an array
IsUnusableReply(o) ==
    \/ o.t = "raise"
    \/ /\ o.t = "content"
       /\ \/ ~o.json
          \/ o.doc.t # "object"
          \/ \E i \in 1..Len(o.doc.members) : o.doc.members[i].val.t # "array"

\* C9: for a non-empty batch, a completion call that raises, unparsable
\* content, or a reply of unexpected shape makes categorize_with_ai return {}
\* with no exception escaping, so the callback goes on to store and redirect.
C9_UnusableReplyGivesEmpty ==
    \A r \in Runs :
       (pc[r] # "ai" /\ IsUnusableReply(aiReply[r])) =>
          /\ HasReturned(r)
          /\ structured[r] = EmptyDict


(* ----------------- the fetch loop (under SpecFetch) ----------------- *)
\* the identifiers among the first n listed whose two reads both succeeded
RECURSIVE FetchedIds(_, _, _)
FetchedIds(msgs, log, n) ==
    IF n = 0 THEN <<>>
    ELSE FetchedIds(msgs, log, n - 1)
         \o (IF log[n].header /\ log[n].snippet THEN <<msgs[n]>> ELSE <<>>)

IdsOf(emails) == [i \in 1..Len(emails) |-> emails[i].id]

RecordFields == {"id", "from", "subject", "snippet"}

LoopFinished(r) == pc[r] \in {"ai", "store", "done"}

\* C7: for every listing and every pattern of per-message failures, the
\* batch is exactly the listed messages whose two reads both succeeded, in
\* the listed order, each as a complete record; a failure skips only its own
\* message and the loop goes on to the end of the listing.
C7_FetchedSubsequence ==
    \A r \in Runs :
       /\ Len(fetchLog[r]) = idx[r] - 1
       /\ IdsOf(extracted[r]) = FetchedIds(messages[r], fetchLog[r], Len(fetchLog[r]))
       /\ \A i \in 1..Len(extracted[r]) : RecordFields \subseteq DOMAIN extracted[r][i]
       /\ LoopFinished(r) => Len(fetchLog[r]) = Len(messages[r])

\* the first of two messages fails (its snippet read), the second is fetched
C7_Witness ==
    /\ pc[1] = "ai"
    /\ messages[1] = <<2, 1>>
    /\ fetchLog[1] = <<[header |-> TRUE, snippet |-> FALSE],
                       [header |-> TRUE, snippet |-> TRUE]>>
    /\ IdsOf(extracted[1]) = <<1>>

\* C8: after the second pass every record's sender_count is the number of
\* records of the batch with the same stripped sender (hence >= 1); skipped
\* messages are not counted.
C8_SenderCount ==
    \A r \in Runs :
       LoopFinished(r) =>
          \A i \in 1..Len(extracted[r]) :
             /\ extracted[r][i].sender_count =
                   Cardinality({j \in 1..Len(extracted[r]) :
                                   extracted[r][j].from = extracted[r][i].from})
             /\ extracted[r][i].sender_count >= 1

\* two messages whose From headers differ but strip to the same name
C8_Witness ==
    /\ pc[1] = "ai"
    /\ Len(extracted[1]) = 2
    /\ extracted[1][1].from = <<"A">>
    /\ extracted[1][2].from = <<"A">>
    /\ extracted[1][1].subject # extracted[1][2].subject
    /\ extracted[1][1].sender_count = 2
    /\ extracted[1][2].sender_count = 2


(* ---------------- the result slot (under Spec) ---------------------- *)
\* the assignment of the callback that stored last, {} before any has
LatestStored ==
    IF storeOrder = <<>> THEN EmptyDict
    ELSE structured[storeOrder[Len(storeOrder)]]

\* C5: after any sequence of callbacks and retrievals, /result returns {}
\* if no callback has reached the store step, and otherwise exactly the
\* assignment of the callback that most recently did; the callbacks that
\* store are exactly those that did not end in a total fetch error, and each
\* overwrites the slot wholesale.
C5_ResultIsLatestStored ==
    [][ /\ last_result = LatestStored
        /\ last_result' = LatestStored'
        /\ \A r \in Runs : pc'[r] = "done" <=> r \in Range(storeOrder')
        /\ get_result => got' = [status |-> "success", categories |-> LatestStored]
      ]_vars

\* two callbacks stored different assignments; /result shows the second
C5_Witness ==
    /\ Len(storeOrder) = 2
    /\ structured[storeOrder[1]] # EmptyDict
    /\ structured[storeOrder[2]] # EmptyDict
    /\ structured[storeOrder[1]] # structured[storeOrder[2]]
    /\ got = [status |-> "success", categories |-> structured[storeOrder[2]]]

\* C6: a callback whose token exchange or listing call fails returns the
\* error response, has made no completion call, never makes one afterwards,
\* and leaves the stored result as it was.
C6_TotalFetchError ==
    [][ \A r \in Runs :
          /\ (pc[r] # "error" /\ pc'[r] = "error") =>
                /\ pc[r] \in {"idle", "list"}
                /\ response'[r] = ErrorResponse
                /\ aiReply'[r] = NoReply
                /\ r \notin Range(storeOrder')
                /\ last_result' = last_result
          /\ pc[r] = "error" =>
                /\ pc'[r] = "error"
                /\ aiReply'[r] = NoReply
                /\ response'[r] = ErrorResponse
      ]_vars

\* the listing of one callback fails after another has stored a result
C6_Witness ==
    \E r, q \in Runs :
       /\ pc[r] = "error"
       /\ credentials = Credentials(r)
       /\ response[r] = ErrorResponse
       /\ pc[q] = "done"
       /\ last_result = structured[q]
       /\ last_result # EmptyDict

\* the callback of run r has fetched its whole listing and categorized it
PipelineComplete(r) ==
    /\ Len(fetchLog[r]) = Len(messages[r])
    /\ \A i \in 1..Len(extracted[r]) : "sender_count" \in DOMAIN extracted[r][i]
    /\ structured[r] = categorize_with_ai(extracted[r], aiReply[r]).val

\* C10: in any interleaving of callbacks and retrievals the slot changes only
\* at the store step of a callback whose fetch and categorization are
\* complete, at most once per callback, and to that callback's whole
\* assignment; a retrieval returns the slot as it stands, so while a callback
\* is in progress it returns what was stored before; with overlapping
\* callbacks the slot holds {} or the whole assignment of one of them.
C10_SlotWrittenWholeOnce ==
    [][ /\ last_result' # last_result =>
              \E r \in Runs : /\ pc[r] = "store"
                              /\ pc'[r] = "done"
                              /\ PipelineComplete(r)
                              /\ last_result' = structured[r]
        /\ \A r \in Runs : pc[r] = "done" => pc'[r] = "done"
        /\ get_result => got'.categories = last_result
        /\ last_result' \in {EmptyDict} \cup {structured'[r] : r \in Range(storeOrder')}
      ]_vars

\* a retrieval made while the second callback is about to store returned
\* the first callback's assignment
C10_Witness ==
    \E r, q \in Runs :
       /\ pc[r] = "done"
       /\ pc[q] = "store"
       /\ structured[r] # EmptyDict
       /\ structured[q] # EmptyDict
       /\ structured[q] # structured[r]
       /\ got = [status |-> "success", categories |-> structured[r]]

=============================================================================
